---- MODULE Spec2Model ----
(***************************************************************************)
(* The call store of sngrep (src/src/storage.c): the global `calls`        *)
(* structure (ordered list, active list, Call-ID hash table, last_index,   *)
(* changed flag, capture/match/sort options) and the operations on it.     *)
(* SipCall objects live in `mem`; a call is referred to by its address,    *)
(* the position of its record in `mem`, and NULL is address 0.             *)
(***************************************************************************)
EXTENDS Integers, Sequences, FiniteSets, TLC

\* ------------------------------------------------------------- bounds
\* calls created during one store lifetime
MaxCalls == 3
\* distinct Call-ID values the packets carry
NumCallIds == 3
\* largest capture.limit tried
MaxLimit == 2
\* messages accepted per call
MaxMsgs == 2
\* distinct IP addresses of the packets and of the SDP media
NumIps == 2
\* RTP packets handed to the store
MaxRtp == 2

\* ---------------------------------------------------------- constants
NULL == 0
\* the empty string of call->xcallid (strlen(call->xcallid) == 0)
NoXCallId == 0
\* what a read of a released Call-ID string yields when the allocator has
\* overwritten it
Garbage == 99

SIP_METHOD_INVITE == 2
SIP_METHOD_MESSAGE == 7
SIP_METHOD_BYE == 9
SIP_RESP_OK == 200
SIP_RESP_BUSY == 486

CallIds == 1..NumCallIds
Keys == CallIds \cup {Garbage}
Methods == {SIP_METHOD_INVITE, SIP_METHOD_MESSAGE, SIP_METHOD_BYE,
            SIP_RESP_OK, SIP_RESP_BUSY}
Attributes == {"CALLINDEX", "CALLID", "MSGCNT"}
SortOptions == [by : Attributes, asc : BOOLEAN]
\* mexpr: an expression is configured; the other three are the flags
MatchOptions == [mexpr : BOOLEAN, minvert : BOOLEAN, invite : BOOLEAN,
                 complete : BOOLEAN]
\* an Address: ip 0 and port 0 when not set
Ips == 1..NumIps
EmptyAddr == [ip |-> 0, port |-> 0]
SipPorts == {5060}
RtpPorts == {16000}
\* the ports RTP is sent from or to
Endpoints == [ip : Ips, port : RtpPorts \cup {24000}]
\* RTP payload types
Formats == {0, 8}
\* a PacketSdpMedia; rtcpport 0 when the SDP has no a=rtcp line
Medias == [address : Ips, rtpport : RtpPorts, rtcpport : {0, 16005}]
\* sdp == NULL is the empty list of medias
NoSdp == <<>>
SdpChoices == {NoSdp} \cup {<<md>> : md \in Medias}

\* a dissected SIP packet; hit is the outcome of g_regex_match on its payload
Packets == [callid : CallIds, xcallid : {NoXCallId} \cup CallIds,
            reqresp : Methods, hit : BOOLEAN,
            src : [ip : Ips, port : SipPorts], sdp : SdpChoices]
\* the packets without SDP, from one signalling address
PlainPackets == {p \in Packets : p.sdp = NoSdp /\ p.src.ip = 1}
\* the packets of plain dialogs: no X-Call-ID, payload matching
DialogPackets == {p \in PlainPackets : p.xcallid = NoXCallId /\ p.hit}
\* an RTP or other media packet; rtp: the dissector attached PacketRtpData
RtpPackets == [src : Endpoints, dst : Endpoints, format : Formats,
               rtp : BOOLEAN]
\* INVITE packets only
InvitePackets == {p \in DialogPackets : p.reqresp = SIP_METHOD_INVITE}
NoMatch == [mexpr |-> FALSE, minvert |-> FALSE, invite |-> FALSE,
            complete |-> FALSE]
\* the settings name no sort attribute
NoSetting == [by |-> "?", asc |-> TRUE]
\* one filter at a time: none, the expression, the inverted expression,
\* INVITE only, complete dialogs only
MatchChoices ==
    {NoMatch,
     [NoMatch EXCEPT !.mexpr = TRUE],
     [NoMatch EXCEPT !.mexpr = TRUE, !.minvert = TRUE],
     [NoMatch EXCEPT !.invite = TRUE],
     [NoMatch EXCEPT !.complete = TRUE]}

VARIABLES
    calls,          \* the global sip_call_list_t
    mem,            \* sequence of SipCall records, one per call ever created
    op,             \* the operation that ran last
    ret,            \* what it returned
    evicted,        \* the call the last operation rotated out, else NULL
    issued,         \* the index values given to created calls, in creation order
    ingested,       \* an ingestion was accepted since the last calls_changed
    sinceClear,     \* operations run since the last clear, capped at 2
    failedMatch,    \* the last operation was an ingest_sip whose packet
                    \* failed storage_check_match_expr
    rtpCount,       \* packets handed to storage_check_rtp_packet so far
    resolved,       \* the stream the last of them was added to, else <<>>
    capturePc,      \* capture thread: "idle", or "l214" inside
                    \* storage_check_sip_packet before line 214
    uiPc,           \* UI thread: "idle", or the line of
                    \* storage_calls_changed it is about to run
    uiChanged,      \* the local variable of storage_calls_changed
    pending         \* line 214 has run and no storage_calls_changed that
                    \* ended since has returned true

\* the variables of the RTP path and of the two threads
auxVars == <<rtpCount, resolved, capturePc, uiPc, uiChanged, pending>>

vars == <<calls, mem, op, ret, evicted, issued, ingested, sinceClear,
          failedMatch, rtpCount, resolved, capturePc, uiPc, uiChanged,
          pending>>

\* ------------------------------------------------------------ helpers
Min(S) == CHOOSE x \in S : \A y \in S : x <= y

Range(s) == {s[i] : i \in 1..Len(s)}

\* g_sequence_index of glib-utils: position of item, -1 when absent
SeqIndex(s, item) ==
    LET S == {i \in 1..Len(s) : s[i] = item}
    IN IF S = {} THEN -1 ELSE Min(S) - 1

\* g_sequence_remove_data of glib-utils: drop the first node holding item
SeqRemoveData(s, item) ==
    LET i == SeqIndex(s, item)
    IN IF i = -1 THEN s
       ELSE [j \in 1..(Len(s) - 1) |-> IF j <= i THEN s[j] ELSE s[j + 1]]

SeqInsertAt(s, p, item) ==
    [j \in 1..(Len(s) + 1) |->
        IF j <= p THEN s[j] ELSE IF j = p + 1 THEN item ELSE s[j - 1]]

\* ------------------------------------------------------------ SipCall
FreedCall ==
    [callid |-> 0, xcallid |-> 0, index |-> 0, locked |-> FALSE,
     state |-> "NONE", msgcnt |-> 0, invite |-> FALSE, xcalls |-> {},
     streams |-> <<>>, medias |-> <<>>, freed |-> TRUE]

\* call_create: a call with no message, not locked, index not yet set
CallCreate(callid, xcallid) ==
    [callid |-> callid, xcallid |-> xcallid, index |-> 0, locked |-> FALSE,
     state |-> "NONE", msgcnt |-> 0, invite |-> FALSE, xcalls |-> {},
     streams |-> <<>>, medias |-> <<>>, freed |-> FALSE]

\* call_destroy, the destroy function of calls.list
CallDestroy(m, a) == [m EXCEPT ![a] = FreedCall]

\* call_add_xcall(parent, child): nothing when the parent is NULL
CallAddXcall(m, parent, child) ==
    IF parent = NULL THEN m
    ELSE [m EXCEPT ![parent].xcalls = @ \cup {child}]

\* call_add_message: the message joins the call's list; the first message
\* decides call_is_invite.  medias[k] is msg->medias of the k-th message
CallAddMessage(c, reqresp) ==
    [c EXCEPT !.msgcnt = @ + 1,
              !.medias = Append(@, <<>>),
              !.invite = IF c.msgcnt = 0 THEN reqresp = SIP_METHOD_INVITE ELSE @]

CallIsInvite(c) == c.invite

\* call_update_state: the INVITE dialog state machine
CallUpdateState(c, reqresp) ==
    IF c.state = "NONE"
    THEN IF reqresp = SIP_METHOD_INVITE THEN [c EXCEPT !.state = "CALL_SETUP"]
         ELSE c
    ELSE IF c.state = "CALL_SETUP"
    THEN IF reqresp = SIP_RESP_OK THEN [c EXCEPT !.state = "IN_CALL"]
         ELSE IF reqresp = SIP_RESP_BUSY THEN [c EXCEPT !.state = "BUSY"]
         ELSE c
    ELSE IF c.state = "IN_CALL"
    THEN IF reqresp = SIP_METHOD_BYE THEN [c EXCEPT !.state = "COMPLETED"]
         ELSE c
    ELSE c

\* call_is_active
CallIsActive(c) == c.state \in {"CALL_SETUP", "IN_CALL"}

\* ------------------------------------------------------------- streams
\* media->address: the connection address of the media with its RTP port
MediaAddress(media) == [ip |-> media.address, port |-> media.rtpport]

\* stream_create(packet, media): an RTP stream to the media address, source
\* not known, no packet, no message yet
StreamCreate(media) ==
    [type |-> "RTP", media |-> media, src |-> EmptyAddr,
     dst |-> MediaAddress(media), fmtcode |-> 0, complete |-> FALSE,
     msg |-> 0, packets |-> <<>>]

\* stream_complete: sets the source the first time only
StreamComplete(st, src) ==
    IF st.complete THEN st ELSE [st EXCEPT !.src = src, !.complete = TRUE]

StreamIsComplete(st) == st.complete

StreamSetFormat(st, format) == [st EXCEPT !.fmtcode = format]

StreamAddPacket(st, id) == [st EXCEPT !.packets = Append(@, id)]

\* call_add_stream
CallAddStream(c, st) == [c EXCEPT !.streams = Append(@, st)]

\* call_find_stream(call, src, dst): the position among the call's streams
\* of the first one with that source and that destination, 0 (NULL) when
\* there is none; a zero src finds the streams whose source is not known
CallFindStream(c, src, dst) ==
    LET S == {i \in 1..Len(c.streams) :
                 c.streams[i].src = src /\ c.streams[i].dst = dst}
    IN IF S = {} THEN NULL ELSE Min(S)

\* call_find_stream_exact(call, src, dst), with the arguments storage.c
\* gives it: no format, so the same key
CallFindStreamExact(c, src, dst) ==
    LET S == {i \in 1..Len(c.streams) :
                 c.streams[i].src = src /\ c.streams[i].dst = dst}
    IN IF S = {} THEN NULL ELSE Min(S)

\* (guint16) x
Uint16(x) == x % 65536

Sign(x) == IF x < 0 THEN -1 ELSE IF x > 0 THEN 1 ELSE 0

\* call_attr_compare
CallAttrCompare(a, b, by) ==
    IF by = "CALLINDEX" THEN Sign(a.index - b.index)
    ELSE IF by = "CALLID" THEN Sign(a.callid - b.callid)
    ELSE Sign(a.msgcnt - b.msgcnt)

\* ------------------------------------------------------------ storage
StorageSorter(a, b, sort) ==
    LET cmp == CallAttrCompare(a, b, sort.by)
    IN IF sort.asc THEN cmp ELSE cmp * (-1)

StorageCallsCount(c) == Len(c.list)

StorageCallIsActive(c, call) == SeqIndex(c.active, call) # -1

StorageFindByCallid(c, callid) == c.callids[callid]

\* a match step that forgets the invert flag
MatchIgnoringInvert(c, p) ==
    IF ~c.match.mexpr THEN TRUE ELSE p.hit

StorageCheckMatchExpr(c, p) ==
    IF ~c.match.mexpr THEN TRUE
    ELSE IF p.hit THEN ~c.match.minvert
    ELSE c.match.minvert

\* g_sequence_insert_sorted searches the balanced tree of the sequence for
\* the place of the new item: the place it returns has an item that is not
\* bigger before it and a bigger item after it.  On a sorted list that is
\* the one place after the last item not bigger than the new one.
InsertPositions(list, m, call, sort) ==
    {p \in 0..Len(list) :
        /\ (p = 0 \/ StorageSorter(m[list[p]], m[call], sort) <= 0)
        /\ (p = Len(list) \/ StorageSorter(m[list[p + 1]], m[call], sort) > 0)}

\* lines 411-436 of storage_register_streams for one media of the message
\* number msg of call c, sent from address src
RegisterMedia(c, msg, src, media) ==
    LET rtp == [StreamCreate(media) EXCEPT !.type = "RTP", !.msg = msg]
        c0 == [c EXCEPT !.medias[msg] = Append(@, media)]
        c1 == IF CallFindStream(c0, EmptyAddr, MediaAddress(media)) = NULL
              THEN CallAddStream(c0, rtp)
              ELSE c0
        rtcp == [StreamCreate(media) EXCEPT
                    !.dst.port = IF media.rtcpport # 0 THEN media.rtcpport
                                 ELSE Uint16(media.rtpport + 1),
                    !.type = "RTCP",
                    !.msg = msg]
        c2 == IF CallFindStream(c1, EmptyAddr, MediaAddress(media)) = NULL
              THEN CallAddStream(c1, rtcp)
              ELSE c1
        back == [StreamCreate(media) EXCEPT
                    !.type = "RTP",
                    !.msg = msg,
                    !.dst = [ip |-> src.ip, port |-> media.rtpport]]
    IN IF CallFindStream(c2, src, MediaAddress(media)) = NULL
       THEN CallAddStream(c2, back)
       ELSE c2

\* storage_register_streams: every media of the SDP in turn; nothing when
\* the packet has no SDP
RECURSIVE StorageRegisterStreams(_, _, _, _)
StorageRegisterStreams(c, msg, src, sdp) ==
    IF sdp = <<>> THEN c
    ELSE StorageRegisterStreams(RegisterMedia(c, msg, src, Head(sdp)),
                                msg, src, Tail(sdp))

\* the streams of the calls of the list, as <<place in the list, place among
\* the call's streams>>
StreamRefs(c, m) ==
    UNION {{<<p, i>> : i \in 1..Len(m[c.list[p]].streams)} :
           p \in 1..Len(c.list)}

\* the first of a set of such pairs
FirstStream(S) ==
    CHOOSE k \in S : \A j \in S : k[1] < j[1] \/ (k[1] = j[1] /\ k[2] <= j[2])

\* stream_find_by_format(src, dst, format) over all calls: the stream this
\* flow already completed with this format, else a stream registered for
\* the destination and not complete yet, else the stream this flow
\* completed with another format; <<call, place>> or <<>> for NULL
StreamFindByFormat(c, m, src, dst, format) ==
    LET Same(st) == st.complete /\ st.src = src /\ st.dst = dst
                                /\ st.fmtcode = format
        Open(st) == ~st.complete /\ st.dst = dst
        Other(st) == st.complete /\ st.src = src /\ st.dst = dst
        Where(Test(_)) == {k \in StreamRefs(c, m) :
                               Test(m[c.list[k[1]]].streams[k[2]])}
        S == IF Where(Same) # {} THEN Where(Same)
             ELSE IF Where(Open) # {} THEN Where(Open)
             ELSE Where(Other)
    IN IF S = {} THEN <<>>
       ELSE <<c.list[FirstStream(S)[1]], FirstStream(S)[2]>>

\* lines 272-314: the first packet of stream i of call c completes it and
\* a stream the other way round may be created
CompleteAndReverse(c, i, src, format) ==
    LET st == StreamSetFormat(StreamComplete(c.streams[i], src), format)
        c1 == [c EXCEPT !.streams[i] = st]
        newrev == StreamSetFormat(
                      StreamComplete(StreamCreate(st.media), st.dst), format)
        reverse == CallFindStream(c1, st.dst, st.src)
    IN IF reverse = NULL THEN CallAddStream(c1, newrev)
       ELSE IF /\ c1.streams[reverse].src.port # 0
               /\ c1.streams[reverse].src # st.src
               /\ CallFindStreamExact(c1, st.dst, st.src) = NULL
            THEN CallAddStream(c1, newrev)
            ELSE c1

\* lines 316-325: stream_add_packet at line 317, then the PACKET_RTP slot is
\* read once more under the name rtcp (line 321) and, being set,
\* stream_complete and stream_add_packet run again
AddPacketToStream(st, src, id) ==
    StreamAddPacket(StreamComplete(StreamAddPacket(st, id), src), id)

\* storage_check_rtp_packet for packet pkt, the id-th one handed in.
\* linked: at line 269 the call is reached through the msg of the stream
\* stream_create has just returned, a field storage.c sets itself for the
\* streams it registers (lines 415, 424, 432); the new stream joins the
\* call of the stream found when that msg leads there and no call when not.
\* stream: <<call, place>> of the stream the packet was added to, <<>> when
\* that is no stream of a call; ret: NULL returned or a stream
StorageCheckRtpPacket(c, m, pkt, id, linked) ==
    LET found == StreamFindByFormat(c, m, pkt.src, pkt.dst, pkt.format)
    IN IF ~pkt.rtp \/ found = <<>>
       THEN [mem |-> m, stream |-> <<>>, ret |-> "null"]
       ELSE LET a == found[1]
                st == m[a].streams[found[2]]
            IN IF StreamIsComplete(st) /\ st.fmtcode # pkt.format
               THEN LET new == StreamSetFormat(
                                   StreamComplete(StreamCreate(st.media), pkt.src),
                                   pkt.format)
                    IN IF linked
                       THEN [mem |-> [m EXCEPT ![a] =
                                         CallAddStream(@,
                                             AddPacketToStream(new, pkt.src, id))],
                             stream |-> <<a, Len(m[a].streams) + 1>>,
                             ret |-> "stream"]
                       ELSE [mem |-> m, stream |-> <<>>, ret |-> "stream"]
               ELSE LET c1 == IF ~StreamIsComplete(st)
                              THEN CompleteAndReverse(m[a], found[2], pkt.src,
                                                      pkt.format)
                              ELSE m[a]
                    IN [mem |-> [m EXCEPT ![a] =
                                    [c1 EXCEPT !.streams[found[2]] =
                                        AddPacketToStream(@, pkt.src, id)]],
                        stream |-> found, ret |-> "stream"]

\* a rotation that takes the first call, locked or not
RotateFirstCall(c, m) ==
    IF c.list = <<>> THEN [calls |-> c, mem |-> m, evicted |-> NULL]
    ELSE LET call == c.list[1]
         IN [calls |-> [c EXCEPT
                           !.callids = [@ EXCEPT ![m[call].callid] = NULL],
                           !.active = SeqRemoveData(@, call),
                           !.list = SeqRemoveData(@, call)],
             mem |-> CallDestroy(m, call),
             evicted |-> call]

StorageCallsRotate(c, m) ==
    LET S == {i \in 1..Len(c.list) : ~m[c.list[i]].locked}
    IN IF S = {} THEN [calls |-> c, mem |-> m, evicted |-> NULL]
       ELSE LET call == c.list[Min(S)]
            IN [calls |-> [c EXCEPT
                              !.callids = [@ EXCEPT ![m[call].callid] = NULL],
                              !.active = SeqRemoveData(@, call),
                              !.list = SeqRemoveData(@, call)],
                mem |-> CallDestroy(m, call),
                evicted |-> call]

\* lines 196-205: the call joins or leaves calls.active
UpdateActive(c, m, call) ==
    IF CallIsActive(m[call])
    THEN IF StorageCallIsActive(c, call)
         THEN [c EXCEPT !.active = Append(@, call)]
         ELSE c
    ELSE IF StorageCallIsActive(c, call)
         THEN [c EXCEPT !.active = SeqRemoveData(@, call)]
         ELSE c

Dropped(c, m, ev) ==
    [calls |-> c, mem |-> m, ret |-> "dropped", evicted |-> ev, created |-> NULL]

\* lines 156-158
RotateAtLimit(c, m) ==
    IF c.capture.limit = StorageCallsCount(c)
    THEN StorageCallsRotate(c, m)
    ELSE [calls |-> c, mem |-> m, evicted |-> NULL]

\* lines 174-217, for the call at address `call` of store c and memory m
AddToCall(c, m, p, call, newcall, ev) ==
    LET m2 == IF m[call].msgcnt = 0 /\ m[call].xcallid # NoXCallId
              THEN CallAddXcall(m, StorageFindByCallid(c, m[call].xcallid), call)
              ELSE m
        m3 == [m2 EXCEPT ![call] = CallAddMessage(@, p.reqresp)]
        m4 == IF CallIsInvite(m3[call])
              THEN [m3 EXCEPT ![call] =
                       CallUpdateState(
                           StorageRegisterStreams(@, @.msgcnt, p.src, p.sdp),
                           p.reqresp)]
              ELSE m3
        c2 == IF CallIsInvite(m4[call]) THEN UpdateActive(c, m4, call) ELSE c
        places == IF newcall THEN InsertPositions(c2.list, m4, call, c2.sort)
                  ELSE {0}
    IN {[calls |-> [c2 EXCEPT !.list = IF newcall THEN SeqInsertAt(@, pos, call)
                                        ELSE @,
                              !.changed = TRUE],
         mem |-> m4, ret |-> "accepted", evicted |-> ev,
         created |-> IF newcall THEN call ELSE NULL] : pos \in places}

\* storage_check_sip_packet: the set of results of one call, for a packet p
\* and the outcome createOk of call_create; more than one result only where
\* the sorted insertion has more than one place
StorageCheckSipPacket(c, m, p, createOk) ==
    LET found == StorageFindByCallid(c, p.callid)
    IN IF found # NULL THEN AddToCall(c, m, p, found, FALSE, NULL)
       ELSE IF ~StorageCheckMatchExpr(c, p) THEN {Dropped(c, m, NULL)}
       ELSE IF c.match.invite /\ p.reqresp # SIP_METHOD_INVITE
            THEN {Dropped(c, m, NULL)}
       ELSE IF c.match.complete /\ p.reqresp > SIP_METHOD_MESSAGE
            THEN {Dropped(c, m, NULL)}
       ELSE LET rot == RotateAtLimit(c, m)
                call == Len(m) + 1
            IN IF ~createOk THEN {Dropped(rot.calls, rot.mem, rot.evicted)}
               ELSE AddToCall(
                        [rot.calls EXCEPT !.callids[p.callid] = call,
                                          !.last_index = @ + 1],
                        Append(rot.mem,
                               [CallCreate(p.callid, p.xcallid) EXCEPT
                                   !.index = rot.calls.last_index + 1]),
                        p, call, TRUE, rot.evicted)

\* a read of the flag that does not reset it
ChangedWithoutReset(c) == [calls |-> c, ret |-> c.changed]

StorageCallsChanged(c) ==
    [calls |-> [c EXCEPT !.changed = FALSE], ret |-> c.changed]

DestroyAll(m, S) == [a \in 1..Len(m) |-> IF a \in S THEN FreedCall ELSE m[a]]

\* a clear that also restarts the index counter
ClearRestartingIndex(c, m) ==
    [calls |-> [c EXCEPT !.callids = [k \in Keys |-> NULL],
                         !.list = <<>>,
                         !.active = <<>>,
                         !.last_index = 0],
     mem |-> DestroyAll(m, Range(c.list))]

\* a clear that leaves the Call-ID table as it is
ClearKeepingTable(c, m) ==
    [calls |-> [c EXCEPT !.list = <<>>, !.active = <<>>],
     mem |-> DestroyAll(m, Range(c.list))]

StorageCallsClear(c, m) ==
    [calls |-> [c EXCEPT !.callids = [k \in Keys |-> NULL],
                         !.list = <<>>,
                         !.active = <<>>],
     mem |-> DestroyAll(m, Range(c.list))]

\* g_hash_table_insert of each call of list, in order, under the key read[call]
RECURSIVE InsertAll(_, _, _)
InsertAll(h, list, read) ==
    IF list = <<>> THEN h
    ELSE InsertAll([h EXCEPT ![read[Head(list)]] = Head(list)], Tail(list), read)

\* storage_calls_clear_soft. keep: the calls filter_check_call accepts.
\* Line 455 releases every key of the table through g_free (line 80), and
\* the keys are the calls' own callid strings (line 165), so line 467 reads
\* released memory: read[call] is what that read yields for each kept call.
StorageCallsClearSoft(c, m, keep, read) ==
    LET InKeep(a) == a \in keep
        list == SelectSeq(c.list, InKeep)
    IN [calls |-> [c EXCEPT !.callids = InsertAll([k \in Keys |-> NULL], list, read),
                            !.list = list,
                            !.active = SelectSeq(c.active, InKeep)],
        mem |-> [a \in 1..Len(m) |->
                    IF a \in keep THEN [m[a] EXCEPT !.callid = read[a]]
                    ELSE IF a \in Range(c.list) THEN FreedCall
                    ELSE m[a]]]

\* the outcomes of reading the released callid of each kept call
FreedReads(m, keep) ==
    {read \in [keep -> Keys] : \A a \in keep : read[a] \in {m[a].callid, Garbage}}

\* g_sequence_sort: every item in turn is put after the last item of the
\* sorted part that is not bigger
RECURSIVE SortInto(_, _, _, _)
SortInto(done, rest, m, sort) ==
    IF rest = <<>> THEN done
    ELSE LET S == {i \in 1..Len(done) :
                     StorageSorter(m[done[i]], m[Head(rest)], sort) > 0}
             p == IF S = {} THEN Len(done) ELSE Min(S) - 1
         IN SortInto(SeqInsertAt(done, p, Head(rest)), Tail(rest), m, sort)

\* a change of sort options that leaves the list as it is
SetSortWithoutSorting(c, m, sort) == [c EXCEPT !.sort = sort]

StorageSetSortOptions(c, m, sort) ==
    [c EXCEPT !.sort = sort, !.list = SortInto(<<>>, c.list, m, sort)]

\* storage_init; setting is the sort field and order the settings name,
\* with by = "?" when sip_attr_from_name knows no such attribute
StorageInit(capture, match, sort, setting) ==
    [capture |-> capture, match |-> match,
     sort |-> IF setting.by \in Attributes THEN setting
              ELSE [by |-> "CALLINDEX", asc |-> TRUE],
     last_index |-> 0, list |-> <<>>, active |-> <<>>,
     callids |-> [k \in Keys |-> NULL], changed |-> FALSE]

\* ------------------------------------------------------------ actions
\* the store after storage_init, for the options and settings given
InitOf(limits, matches, settings) ==
    /\ \E limit \in limits, match \in matches, setting \in settings :
          calls = StorageInit([limit |-> limit], match,
                              [by |-> "CALLINDEX", asc |-> TRUE], setting)
    /\ mem = <<>>
    /\ op = "init"
    /\ ret = "none"
    /\ evicted = NULL
    /\ issued = <<>>
    /\ ingested = FALSE
    /\ sinceClear = 2
    /\ failedMatch = FALSE
    /\ rtpCount = 0
    /\ resolved = <<>>
    /\ capturePc = "idle"
    /\ uiPc = "idle"
    /\ uiChanged = FALSE
    /\ pending = FALSE

Tick == IF sinceClear < 2 THEN sinceClear + 1 ELSE 2

\* storage_check_sip_packet on a packet of `packets`, call_create ending
\* as one of `outcomes`
IngestSipOf(packets, outcomes) ==
    \E p \in packets, createOk \in outcomes :
        /\ StorageFindByCallid(calls, p.callid) = NULL => Len(mem) < MaxCalls
        /\ StorageFindByCallid(calls, p.callid) # NULL =>
              mem[StorageFindByCallid(calls, p.callid)].msgcnt < MaxMsgs
        /\ \E r \in StorageCheckSipPacket(calls, mem, p, createOk) :
              /\ calls' = r.calls
              /\ mem' = r.mem
              /\ ret' = r.ret
              /\ evicted' = r.evicted
              /\ issued' = IF r.created # NULL
                           THEN Append(issued, r.mem[r.created].index)
                           ELSE issued
              /\ ingested' = (ingested \/ r.ret = "accepted")
        /\ op' = "ingest_sip"
        /\ sinceClear' = Tick
        /\ failedMatch' = (/\ StorageFindByCallid(calls, p.callid) = NULL
                           /\ ~StorageCheckMatchExpr(calls, p))
        /\ UNCHANGED auxVars

Rotate ==
    LET r == StorageCallsRotate(calls, mem)
    IN /\ calls' = r.calls
       /\ mem' = r.mem
       /\ evicted' = r.evicted
       /\ op' = "rotate"
       /\ failedMatch' = FALSE
       /\ UNCHANGED auxVars
       /\ ret' = "none"
       /\ sinceClear' = Tick
       /\ UNCHANGED <<issued, ingested>>

Clear ==
    LET r == StorageCallsClear(calls, mem)
    IN /\ calls' = r.calls
       /\ mem' = r.mem
       /\ op' = "clear"
       /\ failedMatch' = FALSE
       /\ UNCHANGED auxVars
       /\ ret' = "none"
       /\ evicted' = NULL
       /\ sinceClear' = 0
       /\ UNCHANGED <<issued, ingested>>

ClearSoft ==
    \E keep \in SUBSET Range(calls.list) :
        \E read \in FreedReads(mem, keep) :
            LET r == StorageCallsClearSoft(calls, mem, keep, read)
            IN /\ calls' = r.calls
               /\ mem' = r.mem
               /\ op' = "clear_soft"
               /\ failedMatch' = FALSE
               /\ UNCHANGED auxVars
               /\ ret' = "none"
               /\ evicted' = NULL
               /\ sinceClear' = Tick
               /\ UNCHANGED <<issued, ingested>>

SetSortOptionsOf(sorts) ==
    \E sort \in sorts :
        /\ calls' = StorageSetSortOptions(calls, mem, sort)
        /\ op' = "set_sort_options"
        /\ failedMatch' = FALSE
        /\ UNCHANGED auxVars
        /\ ret' = "none"
        /\ evicted' = NULL
        /\ sinceClear' = Tick
        /\ UNCHANGED <<mem, issued, ingested>>

CallsChanged ==
    LET r == StorageCallsChanged(calls)
    IN /\ calls' = r.calls
       /\ ret' = IF r.ret THEN "true" ELSE "false"
       /\ op' = "calls_changed"
       /\ failedMatch' = FALSE
       /\ UNCHANGED auxVars
       /\ evicted' = NULL
       /\ ingested' = FALSE
       /\ sinceClear' = Tick
       /\ UNCHANGED <<mem, issued>>

\* storage_check_rtp_packet on a packet of `packets`
IngestRtpOf(packets) ==
    \E pkt \in packets, linked \in BOOLEAN :
        LET r == StorageCheckRtpPacket(calls, mem, pkt, rtpCount + 1, linked)
        IN /\ rtpCount < MaxRtp
           /\ mem' = r.mem
           /\ resolved' = r.stream
           /\ rtpCount' = rtpCount + 1
           /\ op' = "ingest_rtp"
           /\ ret' = r.ret
           /\ evicted' = NULL
           /\ sinceClear' = Tick
           /\ failedMatch' = FALSE
           /\ UNCHANGED <<calls, issued, ingested, capturePc, uiPc, uiChanged,
                          pending>>

\* The capture thread inside storage_check_sip_packet, lines 123-211 and
\* the drop path: everything but the assignment of line 214.
CaptureCheckSipPacket(packets) ==
    \E p \in packets :
        /\ capturePc = "idle"
        /\ StorageFindByCallid(calls, p.callid) = NULL => Len(mem) < MaxCalls
        /\ StorageFindByCallid(calls, p.callid) # NULL =>
              mem[StorageFindByCallid(calls, p.callid)].msgcnt < MaxMsgs
        /\ \E r \in StorageCheckSipPacket(calls, mem, p, TRUE) :
              /\ calls' = [r.calls EXCEPT !.changed = calls.changed]
              /\ mem' = r.mem
              /\ evicted' = r.evicted
              /\ issued' = IF r.created # NULL
                           THEN Append(issued, r.mem[r.created].index)
                           ELSE issued
              /\ capturePc' = IF r.ret = "accepted" THEN "l214" ELSE "idle"
              /\ op' = IF r.ret = "accepted" THEN op ELSE "ingest_sip"
              /\ ret' = IF r.ret = "accepted" THEN ret ELSE "dropped"
        /\ failedMatch' = (/\ StorageFindByCallid(calls, p.callid) = NULL
                           /\ ~StorageCheckMatchExpr(calls, p))
        /\ sinceClear' = Tick
        /\ UNCHANGED <<ingested, rtpCount, resolved, uiPc, uiChanged, pending>>

\* The capture thread at lines 213-217: calls.changed = true, return msg.
CaptureSetChanged ==
    /\ capturePc = "l214"
    /\ calls' = [calls EXCEPT !.changed = TRUE]
    /\ capturePc' = "idle"
    /\ pending' = TRUE
    /\ ingested' = TRUE
    /\ op' = "ingest_sip"
    /\ ret' = "accepted"
    /\ UNCHANGED <<mem, evicted, issued, sinceClear, failedMatch, rtpCount,
                   resolved, uiPc, uiChanged>>

\* The UI thread at line 336: gboolean changed = calls.changed
UiRead ==
    /\ uiPc = "idle"
    /\ uiChanged' = calls.changed
    /\ uiPc' = "l337"
    /\ UNCHANGED <<calls, mem, op, ret, evicted, issued, ingested, sinceClear,
                   failedMatch, rtpCount, resolved, capturePc, pending>>

\* The UI thread at line 337: calls.changed = false
UiReset ==
    /\ uiPc = "l337"
    /\ calls' = [calls EXCEPT !.changed = FALSE]
    /\ uiPc' = "l338"
    /\ UNCHANGED <<mem, op, ret, evicted, issued, ingested, sinceClear,
                   failedMatch, rtpCount, resolved, capturePc, uiChanged,
                   pending>>

\* The UI thread at line 338: return changed
UiReturn ==
    /\ uiPc = "l338"
    /\ uiPc' = "idle"
    /\ op' = "calls_changed"
    /\ ret' = IF uiChanged THEN "true" ELSE "false"
    /\ pending' = IF uiChanged THEN FALSE ELSE pending
    /\ UNCHANGED <<calls, mem, evicted, issued, ingested, sinceClear,
                   failedMatch, rtpCount, resolved, capturePc, uiChanged>>

\* the user pins or unpins a call of the list (call->locked)
SetLocked(m, call, locked) == [m EXCEPT ![call].locked = locked]

Lock ==
    \E call \in Range(calls.list) :
        /\ mem' = SetLocked(mem, call, ~mem[call].locked)
        /\ op' = "lock"
        /\ failedMatch' = FALSE
        /\ UNCHANGED auxVars
        /\ ret' = "none"
        /\ evicted' = NULL
        /\ sinceClear' = Tick
        /\ UNCHANGED <<calls, issued, ingested>>

\* ----------------------------------------------------- specifications
\* Every operation of the store.  The specifications below run the same
\* operations on narrower sets of packets and options.
Init == InitOf(1..MaxLimit, MatchChoices, {NoSetting})

\* INVITE and 486 packets, with payloads that match the expression or not
IngestSip ==
    IngestSipOf({p \in PlainPackets : /\ p.xcallid = NoXCallId
                                 /\ p.reqresp \in {SIP_METHOD_INVITE, SIP_RESP_BUSY}},
                BOOLEAN)

SetSortOptions ==
    SetSortOptionsOf({[by |-> "CALLINDEX", asc |-> TRUE],
                      [by |-> "CALLID", asc |-> FALSE]})

Next ==
    \/ IngestSip
    \/ Rotate
    \/ Clear
    \/ ClearSoft
    \/ SetSortOptions
    \/ CallsChanged

Spec == Init /\ [][Next]_vars

\* Rotation: new INVITE dialogs, pinning by the user, every sort option.
InitRotate == InitOf(1..MaxLimit, {NoMatch}, {NoSetting})

IngestNewInvite ==
    IngestSipOf({p \in InvitePackets : StorageFindByCallid(calls, p.callid) = NULL},
                {TRUE})

SetAnySortOptions == SetSortOptionsOf(SortOptions)

NextRotate ==
    \/ IngestNewInvite
    \/ Rotate
    \/ Lock
    \/ SetAnySortOptions

SpecRotate == InitRotate /\ [][NextRotate]_vars

\* The lifetime of the store: INVITE packets, call_create failing or not.
IngestInvite == IngestSipOf(InvitePackets, BOOLEAN)

NextLife ==
    \/ IngestInvite
    \/ Rotate
    \/ Clear
    \/ ClearSoft
    \/ CallsChanged

SpecLife == Init /\ [][NextLife]_vars

\* Clearing: one filter at a time, every sort option.
NextClear ==
    \/ IngestNewInvite
    \/ Clear
    \/ CallsChanged
    \/ SetAnySortOptions

SpecClear == Init /\ [][NextClear]_vars

\* Sorting: INVITE packets of new calls and of calls in the list, every
\* sort option, rotation, in a store with room for every call.
InitSort == InitOf({MaxCalls}, {NoMatch}, {NoSetting})

IngestDialog == IngestSipOf(InvitePackets, {TRUE})

NextSort ==
    \/ IngestDialog
    \/ SetAnySortOptions
    \/ Rotate

SpecSort == InitSort /\ [][NextSort]_vars

\* Media: INVITE packets with or without SDP from either signalling
\* address, for one Call-ID, and RTP packets.
InitMedia == InitOf({MaxLimit}, {NoMatch}, {NoSetting})

IngestSdp ==
    IngestSipOf({p \in Packets : /\ p.callid = 1
                                 /\ p.xcallid = NoXCallId
                                 /\ p.hit
                                 /\ p.reqresp = SIP_METHOD_INVITE},
                {TRUE})

\* media packets sent to an RTP port an SDP can name
IngestRtp == IngestRtpOf({pkt \in RtpPackets : pkt.dst.port \in RtpPorts})

NextMedia ==
    \/ IngestSdp
    \/ IngestRtp

SpecMedia == InitMedia /\ [][NextMedia]_vars

\* Linked dialogs: INVITE packets with any X-Call-ID, their own Call-ID
\* included, rotation, pinning by the user, clear.
IngestXcall ==
    IngestSipOf({p \in PlainPackets : p.hit /\ p.reqresp = SIP_METHOD_INVITE},
                {TRUE})

NextXcall ==
    \/ IngestXcall
    \/ Rotate
    \/ Lock
    \/ Clear

SpecXcall == InitRotate /\ [][NextXcall]_vars

\* Two threads: the capture thread runs storage_check_sip_packet on INVITE
\* packets while the UI thread runs storage_calls_changed, line by line.
CaptureIngest == CaptureCheckSipPacket(InvitePackets)

NextThreads ==
    \/ CaptureIngest
    \/ CaptureSetChanged
    \/ UiRead
    \/ UiReset
    \/ UiReturn

SpecThreads == InitRotate /\ [][NextThreads]_vars

\* Admission: every combination of match options, first packets of every
\* method with payloads that match the expression or not, clear.
InitClear == InitOf(1..MaxLimit, MatchOptions, {NoSetting})

IngestFirst ==
    IngestSipOf({p \in PlainPackets :
                    /\ p.xcallid = NoXCallId
                    /\ StorageFindByCallid(calls, p.callid) = NULL},
                {TRUE})

NextMatch ==
    \/ IngestFirst
    \/ Clear

SpecMatch == InitClear /\ [][NextMatch]_vars

\* ------------------------------------------------------------- claims
AllLocked == \A c \in Range(calls.list) : mem[c].locked

\* C1: after every operation the Call-ID table and the list hold the same
\* calls: every call of the list is there once and is the value of the table
\* under its own Call-ID, and every value of the table is a call of the list.
C1_TableAndListAgree ==
    LET L == calls.list
    IN /\ \A i, j \in 1..Len(L) : L[i] = L[j] => i = j
       /\ \A i \in 1..Len(L) : StorageFindByCallid(calls, mem[L[i]].callid) = L[i]
       /\ \A k \in Keys : calls.callids[k] # NULL => calls.callids[k] \in Range(L)

\* C2: each time ingest_sip returns, the list holds at most capture.limit
\* calls.
C2_ListWithinLimit ==
    op = "ingest_sip" => StorageCallsCount(calls) <= calls.capture.limit

\* C3: a rotation, run alone or by ingest_sip, leaves every locked call in
\* the list and in the table; when every call is locked storage_calls_rotate
\* changes neither the list, the active list nor the table, and one more
\* rotation changes nothing either.
C3_RotateKeepsLocked ==
    [][op' \in {"rotate", "ingest_sip"} =>
          /\ \A c \in Range(calls.list) :
                mem[c].locked =>
                    /\ c \in Range(calls'.list)
                    /\ ~mem'[c].freed
                    /\ StorageFindByCallid(calls, mem[c].callid) = c
                    /\ StorageFindByCallid(calls', mem'[c].callid) = c
          /\ (op' = "rotate" /\ AllLocked) =>
                /\ calls'.list = calls.list
                /\ calls'.active = calls.active
                /\ calls'.callids = calls.callids
                /\ StorageCallsRotate(calls', mem').calls = calls'
                /\ StorageCallsRotate(calls', mem').mem = mem']_vars

\* a rotation evicted a call while a locked call stayed in the list
C3_Witness ==
    /\ op = "rotate"
    /\ evicted # NULL
    /\ \E c \in Range(calls.list) : mem[c].locked

\* C4: the call a rotation evicts has the smallest index of the unlocked
\* calls of the list, whatever the sort options.
C4_EvictsOldestUnlocked ==
    [][(op' \in {"rotate", "ingest_sip"} /\ evicted' # NULL) =>
          \A c \in Range(calls.list) :
              ~mem[c].locked => mem[evicted'].index <= mem[c].index]_vars

\* C5: each time ingest_sip returns, a call of the list is in the active
\* list exactly when call_is_active holds of it.
C5_ActiveIffIsActive ==
    op = "ingest_sip" =>
        \A c \in Range(calls.list) :
            (c \in Range(calls.active)) <=> CallIsActive(mem[c])

\* C6: when the list holds capture.limit calls and all are locked, a packet
\* whose Call-ID is not in the table is dropped and leaves the list, the
\* active list, the table and last_index as they were.  (A packet of a call
\* in the table is accepted and creates no call; every other packet is
\* dropped or creates one.)
C6_FullAndLockedAdmitsNone ==
    [][(/\ op' = "ingest_sip"
        /\ StorageCallsCount(calls) = calls.capture.limit
        /\ AllLocked
        /\ (ret' = "dropped" \/ Len(mem') > Len(mem))) =>
          /\ ret' = "dropped"
          /\ calls'.list = calls.list
          /\ calls'.active = calls.active
          /\ calls'.callids = calls.callids
          /\ calls'.last_index = calls.last_index]_vars

\* C7: an ingest_sip that drops its packet leaves the list, the active list
\* and the table as they were.
C7_DropChangesNothing ==
    [][(op' = "ingest_sip" /\ ret' = "dropped") =>
          /\ calls'.list = calls.list
          /\ calls'.active = calls.active
          /\ calls'.callids = calls.callids]_vars

\* C8: the indexes given to created calls are 1, 2, 3, ... in creation
\* order, whatever rotate, clear and clear-soft destroyed in between, and a
\* call keeps the index it was given.
C8_IndexesDense ==
    /\ calls.last_index = Len(issued)
    /\ \A i \in 1..Len(issued) : issued[i] = i
    /\ Len(mem) = Len(issued)
    /\ \A a \in 1..Len(mem) : ~mem[a].freed => mem[a].index = issued[a]

\* a call was created after an earlier call had been destroyed
C8_Witness ==
    /\ op = "ingest_sip"
    /\ ret = "accepted"
    /\ Len(mem) >= 2
    /\ mem[1].freed
    /\ ~mem[Len(mem)].freed
    /\ mem[Len(mem)].msgcnt = 1

\* what a caller can observe of a call: its fields, with the calls linked to
\* it named by their Call-IDs
CallView(m, a, withIndex) ==
    [callid |-> m[a].callid, xcallid |-> m[a].xcallid,
     index |-> IF withIndex THEN m[a].index ELSE 0,
     locked |-> m[a].locked, state |-> m[a].state, msgcnt |-> m[a].msgcnt,
     invite |-> m[a].invite, xcalls |-> {m[x].callid : x \in m[a].xcalls},
     streams |-> m[a].streams, medias |-> m[a].medias]

\* what a caller can observe of the store after an ingest_sip that ended as r
StoreView(r, withIndex, withChanged) ==
    [list |-> [i \in 1..Len(r.calls.list) |->
                  CallView(r.mem, r.calls.list[i], withIndex)],
     active |-> [i \in 1..Len(r.calls.active) |->
                    CallView(r.mem, r.calls.active[i], withIndex)],
     callids |-> [k \in Keys |->
                    IF r.calls.callids[k] = NULL THEN <<>>
                    ELSE <<CallView(r.mem, r.calls.callids[k], withIndex)>>],
     changed |-> IF withChanged THEN r.calls.changed ELSE FALSE,
     sort |-> r.calls.sort,
     ret |-> r.ret]

\* the store a fresh storage_init builds from the options now in force
FreshStore == StorageInit(calls.capture, calls.match, calls.sort, calls.sort)

AfterClear(p, createOk) == StorageCheckSipPacket(calls, mem, p, createOk)
AfterInit(p, createOk) == StorageCheckSipPacket(FreshStore, <<>>, p, createOk)

C10_ChangedReadAndReset ==
    [][op' = "calls_changed" =>
          /\ (ret' = "true") = calls.changed
          /\ ~calls'.changed
          /\ (ret' = "true") => ingested
          /\ ~ingested => ret' = "false"]_vars

\* the flag was read as true and is false now
C10_Witness ==
    /\ op = "calls_changed"
    /\ ret = "true"
    /\ ~calls.changed

\* the packets, without SDP, whose Call-ID is not in the table
NewPackets ==
    {p \in PlainPackets : StorageFindByCallid(calls, p.callid) = NULL}

\* the match step as the claim words it
Admits(p) ==
    \/ ~calls.match.mexpr
    \/ (p.hit /\ ~calls.match.minvert)
    \/ (~p.hit /\ calls.match.minvert)

\* the INVITE-only and complete-only filters let the packet through
OtherFiltersPass(p) ==
    /\ ~(calls.match.invite /\ p.reqresp # SIP_METHOD_INVITE)
    /\ ~(calls.match.complete /\ p.reqresp > SIP_METHOD_MESSAGE)

\* the match step drops p: no call is created and the store is as before
MatchStepDrops(p) ==
    \A createOk \in BOOLEAN :
        \A r \in StorageCheckSipPacket(calls, mem, p, createOk) :
            /\ r.ret = "dropped"
            /\ r.created = NULL
            /\ r.mem = mem
            /\ r.calls = calls

\* C11 as stated: for a packet whose Call-ID is not in the table, the match
\* step lets it through exactly when no expression is set, or the payload
\* matches and invert is off, or it does not match and invert is on; a
\* packet that fails the step creates no call, and every packet that passes
\* it, also after a failed one, is accepted (call_create succeeding).
C11_MatchStepThenAccepted ==
    \A p \in NewPackets :
        /\ StorageCheckMatchExpr(calls, p) <=> Admits(p)
        /\ ~Admits(p) => MatchStepDrops(p)
        /\ Admits(p) =>
              \A r \in StorageCheckSipPacket(calls, mem, p, TRUE) :
                  r.ret = "accepted"

\* C11 as amended: the same, except that a packet that passes the match
\* step is accepted exactly when the INVITE-only and complete-only filters
\* let it through too (call_create succeeding), and then creates its call.
C11_MatchStepThenFilters ==
    \A p \in NewPackets :
        /\ StorageCheckMatchExpr(calls, p) <=> Admits(p)
        /\ ~Admits(p) => MatchStepDrops(p)
        /\ Admits(p) =>
              \A r \in StorageCheckSipPacket(calls, mem, p, TRUE) :
                  /\ (r.ret = "accepted") <=> OtherFiltersPass(p)
                  /\ r.ret = "accepted" =>
                        /\ r.created # NULL
                        /\ r.mem[r.created].callid = p.callid
                        /\ StorageFindByCallid(r.calls, p.callid) = r.created

\* a packet has just failed the match step of a store that holds a call
\* already: the packets that come next are the later packets of the claim
C11_Witness ==
    /\ calls.match.mexpr
    /\ op = "ingest_sip"
    /\ ret = "dropped"
    /\ Len(calls.list) = 1
    /\ failedMatch

\* the value of a sort attribute for the call at address a
AttrValue(m, a, by) ==
    IF by = "CALLINDEX" THEN m[a].index
    ELSE IF by = "CALLID" THEN m[a].callid
    ELSE m[a].msgcnt

\* list is in the order of sort: non-decreasing values when asc, else
\* non-increasing
InOrder(list, m, sort) ==
    \A i, j \in 1..Len(list) :
        i < j => IF sort.asc
                 THEN AttrValue(m, list[i], sort.by) <= AttrValue(m, list[j], sort.by)
                 ELSE AttrValue(m, list[i], sort.by) >= AttrValue(m, list[j], sort.by)

\* C12: after every operation the list is ordered by the sort options in
\* force, also after a message was added to a call already in the list and
\* for an attribute such as MSGCNT whose value changes with the messages.
C12_ListStaysSorted == InOrder(calls.list, mem, calls.sort)

\* C13: set_sort_options(s) leaves in the list exactly the calls it held,
\* in the order of s.by (ascending when s.asc, else descending), calls with
\* equal values in the order they had before; the table, the active list
\* and last_index are unchanged.
C13_SetSortIsStableSort ==
    [][op' = "set_sort_options" =>
          LET old == calls.list
              new == calls'.list
          IN /\ Len(new) = Len(old)
             /\ Range(new) = Range(old)
             /\ InOrder(new, mem', calls'.sort)
             /\ \A i, j \in 1..Len(new) :
                   (/\ i < j
                    /\ AttrValue(mem', new[i], calls'.sort.by)
                          = AttrValue(mem', new[j], calls'.sort.by))
                   => SeqIndex(old, new[i]) < SeqIndex(old, new[j])
             /\ calls'.callids = calls.callids
             /\ calls'.active = calls.active
             /\ calls'.last_index = calls.last_index
             /\ mem' = mem]_vars

\* the list was sorted by message count: two calls with as many messages
\* are next to each other in the descending index order they were in
\* before, and a call with more messages comes first
C13_Witness ==
    /\ op = "set_sort_options"
    /\ calls.sort = [by |-> "MSGCNT", asc |-> FALSE]
    /\ Len(calls.list) = 3
    /\ mem[calls.list[1]].msgcnt > mem[calls.list[2]].msgcnt
    /\ \E i \in 1..(Len(calls.list) - 1) :
          /\ mem[calls.list[i]].msgcnt = mem[calls.list[i + 1]].msgcnt
          /\ mem[calls.list[i]].index > mem[calls.list[i + 1]].index

\* the stream the last RTP packet was added to, after and before it
ResolvedNow == mem'[resolved'[1]].streams[resolved'[2]]
ResolvedWas == mem[resolved'[1]].streams[resolved'[2]]
ResolvedIsOld == resolved'[2] <= Len(mem[resolved'[1]].streams)

\* C14: when the first RTP packet src -> dst with format F completes a
\* stream registered from SDP for dst, the call then holds two complete
\* streams with format F: the stream src -> dst and a stream dst -> src.
C14_ReverseStreamSwapsEnds ==
    [][(/\ op' = "ingest_rtp"
        /\ resolved' # <<>>
        /\ ResolvedIsOld
        /\ ~StreamIsComplete(ResolvedWas)) =>
          LET streams == mem'[resolved'[1]].streams
              fwd == ResolvedNow
          IN /\ StreamIsComplete(fwd)
             /\ fwd.dst = ResolvedWas.dst
             /\ \E j \in 1..Len(streams) :
                   /\ StreamIsComplete(streams[j])
                   /\ streams[j].fmtcode = fwd.fmtcode
                   /\ streams[j].src = fwd.dst
                   /\ streams[j].dst = fwd.src]_vars

\* the streams of call c before the operation, none for a call just created
StreamsBefore(a) == IF a <= Len(mem) THEN mem[a].streams ELSE <<>>

\* C15: after ingest_sip accepted a message of an INVITE call with an SDP
\* media m for whose destination the call had no stream, the call has an
\* RTP stream to m.address:m.rtpport and an RTCP stream to m.address with
\* port m.rtcpport when the SDP names one and m.rtpport + 1 otherwise.
C15_RtcpStreamRegistered ==
    [][(op' = "ingest_sip" /\ ret' = "accepted") =>
          \A a \in 1..Len(mem') :
              (/\ ~mem'[a].freed
               /\ CallIsInvite(mem'[a])
               /\ (a > Len(mem) \/ mem'[a].msgcnt > mem[a].msgcnt)) =>
                  LET c == mem'[a]
                      sdp == c.medias[c.msgcnt]
                  IN \A k \in 1..Len(sdp) :
                        (\A i \in 1..Len(StreamsBefore(a)) :
                            StreamsBefore(a)[i].dst # MediaAddress(sdp[k])) =>
                           /\ \E i \in 1..Len(c.streams) :
                                 /\ c.streams[i].type = "RTP"
                                 /\ c.streams[i].dst = MediaAddress(sdp[k])
                           /\ \E i \in 1..Len(c.streams) :
                                 /\ c.streams[i].type = "RTCP"
                                 /\ c.streams[i].dst =
                                       [ip |-> sdp[k].address,
                                        port |-> IF sdp[k].rtcpport # 0
                                                 THEN sdp[k].rtcpport
                                                 ELSE sdp[k].rtpport + 1]]_vars

\* how many times packet id is in the packets of stream st
TimesIn(st, id) == Cardinality({n \in 1..Len(st.packets) : st.packets[n] = id})

\* C17: an ingest_rtp that resolves a stream S adds the packet to S once:
\* S has one packet more, the packet is in its packet sequence once, and
\* every other stream has the packets it had.
C17_PacketAddedOnce ==
    [][(op' = "ingest_rtp" /\ resolved' # <<>>) =>
          /\ Len(ResolvedNow.packets)
                = (IF ResolvedIsOld THEN Len(ResolvedWas.packets) ELSE 0) + 1
          /\ TimesIn(ResolvedNow, rtpCount') = 1
          /\ \A a \in 1..Len(mem) : \A i \in 1..Len(mem[a].streams) :
                <<a, i>> # resolved' =>
                    mem'[a].streams[i].packets = mem[a].streams[i].packets]_vars

\* C18: whatever SDP the accepted messages of an INVITE call carried, the
\* same SDP twice or a media address equal to the sender's, the call never
\* has two streams with no source yet, the same destination and the same
\* type.
C18_NoTwinStreams ==
    \A a \in 1..Len(mem) :
        \A i, j \in 1..Len(mem[a].streams) :
            (/\ i # j
             /\ ~StreamIsComplete(mem[a].streams[i])
             /\ ~StreamIsComplete(mem[a].streams[j])
             /\ mem[a].streams[i].dst = mem[a].streams[j].dst)
            => mem[a].streams[i].type # mem[a].streams[j].type

\* C16: after any sequence of ingest_sip, rotate and clear no call that was
\* not destroyed has among its xcalls (the children linked to it) a call
\* that was destroyed: a linked call is destroyed only together with the
\* call that holds the link.
C16_NoLinkToDestroyedCall ==
    \A a \in 1..Len(mem) :
        ~mem[a].freed => \A x \in mem[a].xcalls : ~mem[x].freed

\* C20: no call is among its own xcalls, also when the first message of a
\* new call names the call's own Call-ID as X-Call-ID.
C20_NoSelfLink ==
    \A a \in 1..Len(mem) : a \notin mem[a].xcalls

\* C19: with storage_calls_changed in the UI thread and ingest_sip in the
\* capture thread interleaved line by line, no notification is lost: once
\* line 214 has set the flag, a storage_calls_changed that ends afterwards
\* returns true; so whenever no storage_calls_changed is running and none
\* has returned true since, the flag is still set for the next one.
C19_NoLostNotification ==
    (uiPc = "idle" /\ pending) => calls.changed

====
